---- MODULE Spec2Model ----
(***************************************************************************)
(* Model of src/utils/markets.tsx of the Atrix DEX UI: the mark price, the *)
(* expected fill price, the balance view, the open-orders fetchers, the    *)
(* all-markets open-orders loader, the cache keys, the result cache behind *)
(* useAsyncData, the resolvers and the wallet balances.                    *)
(*                                                                         *)
(* Each part of the program has its own specification (SpecMark, ...): its *)
(* actions change only the variables of that part.                         *)
(***************************************************************************)
EXTENDS Integers, Sequences, FiniteSets, TLC

VARIABLES
    \* useMarkPrice and the hooks it reads
    marketLoaded,   \* useMarket().market is set
    orderbook,      \* value of useOrderbookAccounts: Undefined or the loaded Orderbook (its L2 levels)
    fills,          \* value of _useUnfilteredTrades: Null or the list of fills
    markPrice,      \* useState<null | number> of useMarkPrice
    effectDue,      \* a render changed [orderbook, trades] and the effect has not run yet
    \* getExpectedFillPrice: the arguments of the last call and what it returned
    fpBook, fpCost, fpAsks, fpTick, fpResult,
    \* useBalances and the hooks it reads
    balMarket,      \* Null or the loaded market (its mints' labels and decimals)
    balAccounts,    \* value of useOpenOrdersAccounts(true): Null or the list of accounts
    \* the open-orders fetchers and what they close over
    connected,      \* useWallet().connected
    wallet,         \* useWallet().wallet: Null or a wallet object
    fetMarket,      \* useMarket().market as the fetchers see it: Null or a market
    inflight,       \* fetcher invocations waiting for the data source, oldest first
    settled,        \* the invocation that settled last: Undefined or its outcome
    \* useAllOpenOrders
    loaded,         \* useState(false)
    refresh,        \* useState(0): the refresh counter
    openOrders,     \* useState(null): Null or the list of per-market orders
    lastRefresh,    \* useState(0): time the last load completed, in ms
    now,            \* new Date().getTime(), in ms
    loads,          \* getAllOpenOrders executions still running, oldest first
    latestPublished,\* bookkeeping: openOrders was set by the load started last
    refreshLoadAt,  \* bookkeeping: time refreshOpenOrders last started a load, 0 if never
    \* the cache keys of useOpenOrdersAccounts and _useUnfilteredTrades
    heap,           \* the objects allocated so far: heap[a] is the content of the object at a
    keyWallet,      \* useWallet().wallet: Null or a reference into the heap
    keyMarket,      \* useMarket().market: Null or a reference into the heap
    keyConnection,  \* useConnection(): a reference into the heap
    keyConnected,   \* useWallet().connected
    cacheKeys,      \* the keys handed to useAsyncData so far: one cache slot each
    \* the async result cache and the two consumers of getOpenOrdersAccounts
    cacheConnected, \* useWallet().connected as the consumers see it
    entries,        \* the cache entries, by fingerprint
    pending,        \* the fetcher invocations in flight
    subscribedTo,   \* per consumer: Undefined or the key it is subscribed to
    seen,           \* per consumer: the value and the error it was handed last
    fetchesStarted, \* fetcher invocations started so far
    \* the resolvers run against a failing data source
    resRunning,     \* resolver invocations waiting for the data source
    resSettled,     \* the invocation that settled last: Undefined or its outcome
    \* the wallet balances of the selected currencies and the hooks they read
    walMarket,      \* useMarket().market: Null or the loaded market
    walAccounts,    \* value of useTokenAccounts: Undefined, Null or the list of token accounts
    walSelected,    \* useSelectedTokenAccounts: per mint, Undefined or the selected pubkey
    walInfo         \* useAccountInfo, per pubkey: the account info and its loaded flag

markVars == <<marketLoaded, orderbook, fills, markPrice, effectDue>>
fillVars == <<fpBook, fpCost, fpAsks, fpTick, fpResult>>
balVars == <<balMarket, balAccounts>>
fetchVars == <<connected, wallet, fetMarket, inflight, settled>>
ordersVars == <<loaded, refresh, openOrders, lastRefresh, now, loads,
               latestPublished, refreshLoadAt>>
keyVars == <<heap, keyWallet, keyMarket, keyConnection, keyConnected, cacheKeys>>
cacheVars == <<cacheConnected, entries, pending, subscribedTo, seen, fetchesStarted>>
resVars == <<resRunning, resSettled>>
walVars == <<walMarket, walAccounts, walSelected, walInfo>>
vars == <<markVars, fillVars, balVars, fetchVars, ordersVars, keyVars, cacheVars, resVars, walVars>>

\* what the actions of one part leave alone
notMarkVars == <<fillVars, balVars, fetchVars, ordersVars, keyVars, cacheVars, resVars, walVars>>
notFillVars == <<markVars, balVars, fetchVars, ordersVars, keyVars, cacheVars, resVars, walVars>>
notBalVars == <<markVars, fillVars, fetchVars, ordersVars, keyVars, cacheVars, resVars, walVars>>
notFetchVars == <<markVars, fillVars, balVars, ordersVars, keyVars, cacheVars, resVars, walVars>>
\* useAllOpenOrders reads connected and wallet of the fetchers' part
notOrdersVars == <<markVars, fillVars, balVars, fetMarket, inflight, settled, keyVars, cacheVars, resVars, walVars>>
notKeyVars == <<markVars, fillVars, balVars, fetchVars, ordersVars, cacheVars, resVars, walVars>>
notCacheVars == <<markVars, fillVars, balVars, fetchVars, ordersVars, keyVars, resVars, walVars>>
\* the resolvers read connected, wallet and market of the fetchers' part
notResVars == <<markVars, fillVars, balVars, fetchVars, ordersVars, keyVars, cacheVars, walVars>>
notWalVars == <<markVars, fillVars, balVars, fetchVars, ordersVars, keyVars, cacheVars, resVars>>

----------------------------------------------------------------------------
(* JavaScript values.  A number is an exact fraction n/d in lowest terms;   *)
(* NaN, Infinity, null, undefined and false are values of their own.        *)

Null == [t |-> "null"]
Undefined == [t |-> "undefined"]
False == [t |-> "false"]
NaN == [t |-> "nan"]
Infinity == [t |-> "inf"]

Abs(x) == IF x < 0 THEN -x ELSE x

RECURSIVE GCD(_, _)
GCD(a, b) == IF b = 0 THEN a ELSE GCD(b, a % b)

\* the number n/d (d # 0), in lowest terms with a positive denominator
Rat(n, d) ==
    LET s == IF d < 0 THEN -1 ELSE 1
        g == GCD(Abs(n), Abs(d))
    IN  [t |-> "num", n |-> (s * n) \div g, d |-> (s * d) \div g]

Int2Num(i) == Rat(i, 1)

IsNum(v) == v.t = "num"

\* JavaScript truthiness: 0, NaN, null, undefined and false are falsy; every
\* object (a BN instance, a level, a wallet) is truthy
Truthy(v) ==
    CASE v.t = "num" -> v.n # 0
      [] v.t \in {"nan", "null", "undefined", "false"} -> FALSE
      [] OTHER -> TRUE

\* ToNumber, as the arithmetic operators apply it to their operands
ToNumber(v) ==
    CASE v.t \in {"num", "nan", "inf"} -> v
      [] v.t \in {"null", "false"} -> Int2Num(0)
      [] OTHER -> NaN   \* undefined, and an object without a numeric valueOf

JsAdd(a, b) ==
    LET x == ToNumber(a)
        y == ToNumber(b)
    IN  IF x.t = "nan" \/ y.t = "nan" THEN NaN
        ELSE IF x.t = "inf" \/ y.t = "inf" THEN Infinity
        ELSE Rat(x.n * y.d + y.n * x.d, x.d * y.d)

JsSub(a, b) ==
    LET x == ToNumber(a)
        y == ToNumber(b)
    IN  IF x.t = "nan" \/ y.t = "nan" THEN NaN
        ELSE IF x.t = "inf" /\ y.t = "inf" THEN NaN
        ELSE IF x.t = "inf" \/ y.t = "inf" THEN Infinity
        ELSE Rat(x.n * y.d - y.n * x.d, x.d * y.d)

JsMul(a, b) ==
    LET x == ToNumber(a)
        y == ToNumber(b)
    IN  IF x.t = "nan" \/ y.t = "nan" THEN NaN
        ELSE IF x.t = "inf" \/ y.t = "inf"
             THEN (IF (x.t = "num" /\ x.n = 0) \/ (y.t = "num" /\ y.n = 0) THEN NaN ELSE Infinity)
        ELSE Rat(x.n * y.n, x.d * y.d)

JsDiv(a, b) ==
    LET x == ToNumber(a)
        y == ToNumber(b)
    IN  IF x.t = "nan" \/ y.t = "nan" THEN NaN
        ELSE IF x.t = "inf" THEN (IF y.t = "inf" THEN NaN ELSE Infinity)
        ELSE IF y.t = "inf" THEN Int2Num(0)
        ELSE IF y.n = 0 THEN (IF x.n = 0 THEN NaN ELSE Infinity)
        ELSE Rat(x.n * y.d, x.d * y.n)

\* a > b: false whenever an operand is NaN (the model's only Infinity is +Infinity)
JsGt(a, b) ==
    LET x == ToNumber(a)
        y == ToNumber(b)
    IN  IF x.t = "nan" \/ y.t = "nan" THEN FALSE
        ELSE IF y.t = "inf" THEN FALSE
        ELSE IF x.t = "inf" THEN TRUE
        ELSE x.n * y.d > y.n * x.d

\* Math.min: NaN when an operand is NaN
JsMin(a, b) ==
    LET x == ToNumber(a)
        y == ToNumber(b)
    IN  IF x.t = "nan" \/ y.t = "nan" THEN NaN
        ELSE IF JsGt(x, y) THEN y ELSE x

\* order of two numbers of the model (exact fractions)
NumLeq(x, y) == x.n * y.d <= y.n * x.d

----------------------------------------------------------------------------
(* Bounds of the mark-price part *)

MarkMaxPrice == 2   \* level and fill prices are 0..MarkMaxPrice
MarkDepth == 2      \* levels per side of the loaded order book
MaxFills == 1       \* fills in the loaded fill list

DefaultDepth == 20  \* useOrderbook(depth = 20)

----------------------------------------------------------------------------
(* Order-book levels.  Orderbook.getL2 returns aggregated levels, best      *)
(* price first: descending prices for bids, ascending for asks, no price    *)
(* twice.                                                                   *)

\* one element of getL2's result: an object with a price and a quantity
Level(p, q) == [t |-> "level", price |-> p, quantity |-> q]

InPriority(asks, p1, p2) == IF asks THEN p1 < p2 ELSE p1 > p2

\* the level sequences of at most maxLen levels a side can hold
RECURSIVE LevelSeqs(_, _, _, _)
LevelSeqs(maxLen, prices, qtys, asks) ==
    IF maxLen = 0 THEN {<<>>}
    ELSE LET shorter == LevelSeqs(maxLen - 1, prices, qtys, asks)
             longest == {s \in shorter : Len(s) = maxLen - 1}
         IN  shorter \cup
             UNION { { Append(s, Level(p, q)) : q \in qtys } :
                     <<s, p>> \in { sp \in longest \X prices :
                                      \/ sp[1] = <<>>
                                      \/ InPriority(asks, sp[1][Len(sp[1])].price, sp[2]) } }

MarkPrices == 0..MarkMaxPrice
MarkBidLevels == LevelSeqs(MarkDepth, MarkPrices, {1}, FALSE)
MarkAskLevels == LevelSeqs(MarkDepth, MarkPrices, {1}, TRUE)

\* Orderbook.getL2(depth, asks): the first depth levels of the side
getL2(ob, depth, asks) ==
    LET side == IF asks THEN ob.asks ELSE ob.bids
    IN  SubSeq(side, 1, IF Len(side) < depth THEN Len(side) ELSE depth)

\* useOrderbook: [price, quantity] pairs of each side, empty without a loaded
\* order book or market
useOrderbook(ob, market, depth) ==
    LET pairs(asks) ==
            IF ~Truthy(ob) \/ ~market THEN <<>>
            ELSE LET l2 == getL2(ob, depth, asks)
                 IN  [i \in 1..Len(l2) |-> <<Int2Num(l2[i].price), Int2Num(l2[i].quantity)>>]
    IN  [bids |-> pairs(FALSE), asks |-> pairs(TRUE)]

\* useTrades: Null without fills, else the maker fills in order
useTrades(unfiltered) ==
    IF ~Truthy(unfiltered) THEN Null
    ELSE [t |-> "array", items |-> SelectSeq(unfiltered.items, LAMBDA f : f.maker)]

\* Array.prototype.sort((a, b) => a - b) on numbers: ascending
RECURSIVE InsertAsc(_, _)
InsertAsc(x, s) ==
    IF s = <<>> THEN <<x>>
    ELSE IF JsGt(s[1], x) THEN <<x>> \o s
    ELSE <<s[1]>> \o InsertAsc(x, Tail(s))

RECURSIVE SortAsc(_)
SortAsc(s) == IF s = <<>> THEN <<>> ELSE InsertAsc(s[Len(s)], SortAsc(SubSeq(s, 1, Len(s) - 1)))

\* the effect with the last trade taken as the mark price whenever there is one
MarkPriceOf_LastTradeWins(ob, trades) ==
    LET bb == IF Len(ob.bids) > 0 THEN ToNumber(ob.bids[1][1]) ELSE False
        ba == IF Len(ob.asks) > 0 THEN ToNumber(ob.asks[1][1]) ELSE False
        last == IF ~Truthy(trades) THEN trades
                ELSE IF Len(trades.items) > 0 THEN Int2Num(trades.items[1].price)
                ELSE False
    IN  IF Truthy(bb) /\ Truthy(ba)
        THEN IF Truthy(last)
             THEN last
             ELSE JsDiv(JsAdd(bb, ba), Int2Num(2))
        ELSE Null

\* the body of useMarkPrice's effect: the value handed to setMarkPrice
MarkPriceOf(ob, trades) ==
    LET bb == IF Len(ob.bids) > 0 THEN ToNumber(ob.bids[1][1]) ELSE False
        ba == IF Len(ob.asks) > 0 THEN ToNumber(ob.asks[1][1]) ELSE False
        last == IF ~Truthy(trades) THEN trades
                ELSE IF Len(trades.items) > 0 THEN Int2Num(trades.items[1].price)
                ELSE False
    IN  IF Truthy(bb) /\ Truthy(ba)
        THEN IF Truthy(last)
             THEN SortAsc(<<bb, ba, last>>)[2]
             ELSE JsDiv(JsAdd(bb, ba), Int2Num(2))
        ELSE Null

\* what the component renders with: the hooks' current values
CurOrderbook == useOrderbook(orderbook, marketLoaded, DefaultDepth)
CurTrades == useTrades(fills)

----------------------------------------------------------------------------
(* The mark-price state machine *)

Fill(p, m) == [price |-> p, maker |-> m]
Fills == { Fill(p, m) : p \in MarkPrices, m \in BOOLEAN }

\* MarketProvider sets or clears the market; the consumer renders again
MarketChanged ==
    /\ marketLoaded' = ~marketLoaded
    /\ effectDue' = TRUE
    /\ UNCHANGED <<orderbook, fills, markPrice>>
    /\ UNCHANGED notMarkVars

\* useOrderbookAccounts delivers a newly loaded order book
OrderbookFetched ==
    /\ \E asks \in BOOLEAN :
         \E lv \in (IF asks THEN MarkAskLevels ELSE MarkBidLevels) :
            LET cur == IF Truthy(orderbook) THEN orderbook
                       ELSE [t |-> "orderbook", bids |-> <<>>, asks |-> <<>>]
            IN  orderbook' = IF asks THEN [cur EXCEPT !.asks = lv]
                             ELSE [cur EXCEPT !.bids = lv]
    /\ effectDue' = TRUE
    /\ UNCHANGED <<marketLoaded, fills, markPrice>>
    /\ UNCHANGED notMarkVars

\* the cache key of useOrderbookAccounts changed: no value for the new key yet
OrderbookCleared ==
    /\ Truthy(orderbook)
    /\ orderbook' = Undefined
    /\ effectDue' = TRUE
    /\ UNCHANGED <<marketLoaded, fills, markPrice>>
    /\ UNCHANGED notMarkVars

\* _useUnfilteredTrades delivers a fill list with one more recent fill in front
FillsFetched ==
    /\ \E f \in Fills :
         fills' = [t |-> "array",
                   items |-> IF Truthy(fills)
                             THEN SubSeq(<<f>> \o fills.items, 1,
                                         IF Len(fills.items) + 1 < MaxFills
                                         THEN Len(fills.items) + 1 ELSE MaxFills)
                             ELSE <<f>>]
    /\ effectDue' = TRUE
    /\ UNCHANGED <<marketLoaded, orderbook, markPrice>>
    /\ UNCHANGED notMarkVars

\* _useUnfilteredTrades delivers null (no market) or an empty list
FillsEmptied ==
    /\ \E v \in {Null, [t |-> "array", items |-> <<>>]} : fills' = v
    /\ effectDue' = TRUE
    /\ UNCHANGED <<marketLoaded, orderbook, markPrice>>
    /\ UNCHANGED notMarkVars

\* the effect of useMarkPrice runs after the render
MarkEffect ==
    /\ effectDue
    /\ markPrice' = MarkPriceOf(CurOrderbook, CurTrades)
    /\ effectDue' = FALSE
    /\ UNCHANGED <<marketLoaded, orderbook, fills>>
    /\ UNCHANGED notMarkVars

MarkNext ==
    \/ MarketChanged
    \/ OrderbookFetched
    \/ OrderbookCleared
    \/ FillsFetched
    \/ FillsEmptied
    \/ MarkEffect


----------------------------------------------------------------------------
(* getExpectedFillPrice *)

FillMaxPrice == 2   \* level prices are 1..FillMaxPrice
FillMaxQty == 2     \* level quantities are 1..FillMaxQty
FillDepth == 2      \* levels per side
FillMaxCost == 4    \* cost is 1..FillMaxCost
FillMaxTick == 1    \* tickSizeDecimals is omitted or 0..FillMaxTick

FillDepthArg == 1000    \* orderbook.getL2(1000, asks)

FillBidLevels == LevelSeqs(FillDepth, 1..FillMaxPrice, 1..FillMaxQty, FALSE)
FillAskLevels == LevelSeqs(FillDepth, 1..FillMaxPrice, 1..FillMaxQty, TRUE)
FillTicks == {Undefined} \cup { Int2Num(d) : d \in 0..FillMaxTick }

RECURSIVE Pow10(_)
Pow10(d) == IF d = 0 THEN 1 ELSE 10 * Pow10(d - 1)

\* Math.floor of an exact fraction
FloorRat(x) == x.n \div x.d

\* floorToDecimal of ./utils: the value rounded down to that many decimals
floorToDecimal(value, decimals) ==
    IF ~IsNum(value) THEN value
    ELSE LET m == Pow10(decimals.n)
         IN  Rat(FloorRat(Rat(value.n * m, value.d)), m)

\* the for loop of getExpectedFillPrice from level i on.  The loop variable
\* price is bound to the whole level and sizeAtLevel is declared but never
\* assigned.
RECURSIVE WalkLevels(_, _, _, _, _, _)
WalkLevels(levels, i, spentCost, avgPrice, cost, asks) ==
    IF i > Len(levels) THEN [spentCost |-> spentCost, avgPrice |-> avgPrice]
    ELSE LET price == levels[i]
             sizeAtLevel == Undefined
             costAtLevel == JsMul(IF ~asks THEN Int2Num(1) ELSE price, sizeAtLevel)
         IN  IF JsGt(JsAdd(spentCost, costAtLevel), cost)
             THEN [spentCost |-> cost,
                   avgPrice |-> JsAdd(avgPrice, JsMul(JsSub(cost, spentCost), price))]
             ELSE WalkLevels(levels, i + 1, JsAdd(spentCost, costAtLevel),
                             JsAdd(avgPrice, JsMul(costAtLevel, price)), cost, asks)

\* const totalAvgPrice = avgPrice / Math.min(cost, spentCost)
totalAvgPrice(ob, cost, asks) ==
    LET w == WalkLevels(getL2(ob, FillDepthArg, asks), 1, Int2Num(0), Int2Num(0), cost, asks)
    IN  JsDiv(w.avgPrice, JsMin(cost, w.spentCost))

getExpectedFillPrice(ob, cost, asks, tickSizeDecimals) ==
    LET total == totalAvgPrice(ob, cost, asks)
    IN  IF Truthy(tickSizeDecimals) THEN floorToDecimal(total, tickSizeDecimals)
        ELSE total

\* the caller changes one argument of its next call
FillSetBook ==
    /\ \E asks \in BOOLEAN :
         \E lv \in (IF asks THEN FillAskLevels ELSE FillBidLevels) :
            fpBook' = IF asks THEN [fpBook EXCEPT !.asks = lv] ELSE [fpBook EXCEPT !.bids = lv]
    /\ fpResult' = Undefined
    /\ UNCHANGED <<fpCost, fpAsks, fpTick>>
    /\ UNCHANGED notFillVars

FillSetCost ==
    /\ \E c \in 1..FillMaxCost : fpCost' = c
    /\ fpResult' = Undefined
    /\ UNCHANGED <<fpBook, fpAsks, fpTick>>
    /\ UNCHANGED notFillVars

FillSetSide ==
    /\ fpAsks' = ~fpAsks
    /\ fpResult' = Undefined
    /\ UNCHANGED <<fpBook, fpCost, fpTick>>
    /\ UNCHANGED notFillVars

FillSetTick ==
    /\ \E d \in FillTicks : fpTick' = d
    /\ fpResult' = Undefined
    /\ UNCHANGED <<fpBook, fpCost, fpAsks>>
    /\ UNCHANGED notFillVars

\* the call itself
FillCall ==
    /\ fpResult' = getExpectedFillPrice(fpBook, Int2Num(fpCost), fpAsks, fpTick)
    /\ UNCHANGED <<fpBook, fpCost, fpAsks, fpTick>>
    /\ UNCHANGED notFillVars

FillNext ==
    \/ FillSetBook
    \/ FillSetCost
    \/ FillSetSide
    \/ FillSetTick
    \/ FillCall

----------------------------------------------------------------------------
(* useBalances *)

MaxAmt == 1         \* raw token amounts of an open-orders account are 0..MaxAmt
MaxDecimals == 1    \* a mint has 0..MaxDecimals decimals
MaxAccounts == 1    \* open-orders accounts the fetcher returns for one owner

\* TOKEN_MINTS: the mints the UI has a name for
TOKEN_MINTS == [mint1 |-> "Mint 1", mint2 |-> "Mint 2"]

String(x) == [t |-> "string", s |-> x]
BN(i) == [t |-> "bn", v |-> i]
\* BN.sub
BnSub(a, b) == BN(a.v - b.v)

\* a loaded market: its two mints and their decimals
Market(bm, qm, bd, qd) ==
    [t |-> "market", baseMintAddress |-> bm, quoteMintAddress |-> qm,
     baseDecimals |-> bd, quoteDecimals |-> qd]
Markets ==
    { Market(bm, qm, bd, qd) : bm \in {"mint1", "other"}, qm \in {"mint2", "other"},
                               bd \in 0..MaxDecimals, qd \in 0..MaxDecimals }

\* an open-orders account: free never exceeds total
OpenOrdersAccount(bt, bf, qt, qf) ==
    [t |-> "openorders", baseTokenTotal |-> BN(bt), baseTokenFree |-> BN(bf),
     quoteTokenTotal |-> BN(qt), quoteTokenFree |-> BN(qf)]
AmtPairs == { tf \in (0..MaxAmt) \X (0..MaxAmt) : tf[2] <= tf[1] }
OpenOrdersAccounts ==
    { OpenOrdersAccount(b[1], b[2], q[1], q[2]) : b \in AmtPairs, q \in AmtPairs }

Array(items) == [t |-> "array", items |-> items]

RemoveAt(seq, i) == SubSeq(seq, 1, i - 1) \o SubSeq(seq, i + 1, Len(seq))

\* the currency name getMarketDetails finds for a mint (markets of USE_MARKETS
\* carry no label)
CurrencyOf(mint) ==
    IF mint \in DOMAIN TOKEN_MINTS THEN String(TOKEN_MINTS[mint]) ELSE String("UNKNOWN")

getMarketDetails(market) ==
    IF ~Truthy(market) THEN [baseCurrency |-> Undefined, quoteCurrency |-> Undefined]
    ELSE [baseCurrency |-> CurrencyOf(market.baseMintAddress),
          quoteCurrency |-> CurrencyOf(market.quoteMintAddress)]

\* market.baseSplSizeToNumber / quoteSplSizeToNumber: the raw amount divided
\* by ten to the mint's decimals
baseSplSizeToNumber(market, size) == Rat(size.v, Pow10(market.baseDecimals))
quoteSplSizeToNumber(market, size) == Rat(size.v, Pow10(market.quoteDecimals))

useSelectedOpenOrdersAccount(accounts) ==
    IF ~Truthy(accounts) THEN Null
    ELSE IF Len(accounts.items) >= 1 THEN accounts.items[1] ELSE Undefined

\* baseExists with the amounts tested as plain numbers, so that a zero total
\* or a zero free amount counts as missing
baseExists_ZeroIsMissing(ooAccount) ==
    IF ~Truthy(ooAccount) THEN ooAccount
    ELSE IF ooAccount.baseTokenTotal.v = 0 THEN Int2Num(0)
    ELSE IF ooAccount.baseTokenFree.v = 0 THEN Int2Num(0)
    ELSE ooAccount.baseTokenFree

\* openOrders && openOrders.baseTokenTotal && openOrders.baseTokenFree (ooAccount
\* is the source's openOrders)
baseExists(ooAccount) ==
    IF ~Truthy(ooAccount) THEN ooAccount
    ELSE IF ~Truthy(ooAccount.baseTokenTotal) THEN ooAccount.baseTokenTotal
    ELSE ooAccount.baseTokenFree

quoteExists(ooAccount) ==
    IF ~Truthy(ooAccount) THEN ooAccount
    ELSE IF ~Truthy(ooAccount.quoteTokenTotal) THEN ooAccount.quoteTokenTotal
    ELSE ooAccount.quoteTokenFree

baseOrders(market, ooAccount) ==
    IF Truthy(baseExists(ooAccount)) /\ Truthy(market) /\ Truthy(ooAccount)
    THEN baseSplSizeToNumber(market, BnSub(ooAccount.baseTokenTotal, ooAccount.baseTokenFree))
    ELSE Null

baseUnsettled(market, ooAccount) ==
    IF Truthy(baseExists(ooAccount)) /\ Truthy(market) /\ Truthy(ooAccount)
    THEN baseSplSizeToNumber(market, ooAccount.baseTokenFree)
    ELSE Null

\* quoteOrders scaled with the base mint's decimals
quoteOrders_BaseDecimals(market, ooAccount) ==
    IF Truthy(quoteExists(ooAccount)) /\ Truthy(market) /\ Truthy(ooAccount)
    THEN baseSplSizeToNumber(market, BnSub(ooAccount.quoteTokenTotal, ooAccount.quoteTokenFree))
    ELSE Null

quoteOrders(market, ooAccount) ==
    IF Truthy(quoteExists(ooAccount)) /\ Truthy(market) /\ Truthy(ooAccount)
    THEN quoteSplSizeToNumber(market, BnSub(ooAccount.quoteTokenTotal, ooAccount.quoteTokenFree))
    ELSE Null

quoteUnsettled(market, ooAccount) ==
    IF Truthy(quoteExists(ooAccount)) /\ Truthy(market) /\ Truthy(ooAccount)
    THEN quoteSplSizeToNumber(market, ooAccount.quoteTokenFree)
    ELSE Null

\* useBalances: no view without both currency names, else the base and the
\* quote view
useBalances(market, accounts, baseCurrencyBalances, quoteCurrencyBalances) ==
    LET ooAccount == useSelectedOpenOrdersAccount(accounts)
        baseCurrency == getMarketDetails(market).baseCurrency
        quoteCurrency == getMarketDetails(market).quoteCurrency
    IN  IF \/ baseCurrency = String("UNKNOWN")
           \/ quoteCurrency = String("UNKNOWN")
           \/ ~Truthy(baseCurrency)
           \/ ~Truthy(quoteCurrency)
        THEN <<>>
        ELSE << [market |-> market,
                 key |-> <<baseCurrency.s, quoteCurrency.s, baseCurrency.s>>,
                 coin |-> baseCurrency,
                 wallet |-> baseCurrencyBalances,
                 orders |-> baseOrders(market, ooAccount),
                 openOrders |-> ooAccount,
                 unsettled |-> baseUnsettled(market, ooAccount)],
                [market |-> market,
                 key |-> <<quoteCurrency.s, baseCurrency.s, quoteCurrency.s>>,
                 coin |-> quoteCurrency,
                 wallet |-> quoteCurrencyBalances,
                 openOrders |-> ooAccount,
                 orders |-> quoteOrders(market, ooAccount),
                 unsettled |-> quoteUnsettled(market, ooAccount)] >>

\* what the balances table renders
CurBalances == useBalances(balMarket, balAccounts, Null, Null)

\* MarketProvider loads a market or clears it
BalMarketChanged ==
    /\ \E m \in Markets \cup {Null} : m # balMarket /\ balMarket' = m
    /\ UNCHANGED balAccounts
    /\ UNCHANGED notBalVars

\* getOpenOrdersAccounts resolves to null (no wallet or no market) or to an
\* empty list (the owner has no account on this market)
BalAccountsNone ==
    /\ \E v \in {Null, Array(<<>>)} : v # balAccounts /\ balAccounts' = v
    /\ UNCHANGED balMarket
    /\ UNCHANGED notBalVars

\* the next fetch finds one more account of the owner
BalAccountFound ==
    /\ \E a \in OpenOrdersAccounts :
         LET cur == IF Truthy(balAccounts) THEN balAccounts.items ELSE <<>>
         IN  /\ Len(cur) < MaxAccounts
             /\ balAccounts' = Array(Append(cur, a))
    /\ UNCHANGED balMarket
    /\ UNCHANGED notBalVars

\* the next fetch finds an account with other amounts (orders placed,
\* matched, cancelled or settled)
BalAccountUpdated ==
    /\ Truthy(balAccounts)
    /\ \E i \in 1..Len(balAccounts.items), a \in OpenOrdersAccounts :
         /\ a # balAccounts.items[i]
         /\ \/ a.baseTokenTotal = balAccounts.items[i].baseTokenTotal
               /\ a.baseTokenFree = balAccounts.items[i].baseTokenFree
            \/ a.quoteTokenTotal = balAccounts.items[i].quoteTokenTotal
               /\ a.quoteTokenFree = balAccounts.items[i].quoteTokenFree
         /\ balAccounts' = Array([balAccounts.items EXCEPT ![i] = a])
    /\ UNCHANGED balMarket
    /\ UNCHANGED notBalVars

BalNext ==
    \/ BalMarketChanged
    \/ BalAccountsNone
    \/ BalAccountFound
    \/ BalAccountUpdated

----------------------------------------------------------------------------
(* The open-orders fetchers: getOpenOrdersAccounts of useOpenOrdersAccounts  *)
(* and getAllOpenOrdersAccounts of useAllOpenOrdersAccounts.  An invocation  *)
(* runs to its first await; the data source answers later.                  *)

MaxOwners == 2      \* wallets the user can select
MaxInflight == 2    \* invocations waiting for the data source at once

NumMarkets == 1     \* USE_MARKETS.length

Wallet(k) == [t |-> "wallet", publicKey |-> k]
Wallets == { Wallet(k) : k \in 1..MaxOwners }

\* what the data source can answer for an owner: no account, or one account
OwnerAccounts(k) == { <<>>, <<[t |-> "openorders", owner |-> k]>> }

\* how an invocation settled.  authed (a wallet was connected when it was
\* invoked) and dsCalls (the data-source calls it made) are bookkeeping.
Outcome(fetcher, authed, status, value, dsCalls) ==
    [t |-> "outcome", fetcher |-> fetcher, authed |-> authed, status |-> status,
     value |-> value, dsCalls |-> dsCalls]

Resolved(value) == [status |-> "resolved", value |-> value]
Rejected == [status |-> "rejected", value |-> Undefined]

\* getOpenOrdersAccounts with only the wallet object tested, not connected
getOpenOrdersAccounts_Early_NoConnectedTest(isConnected, w, market) ==
    IF ~Truthy(w) THEN Resolved(Null)
    ELSE IF ~Truthy(market) THEN Resolved(Null)
    ELSE Undefined

\* getOpenOrdersAccounts up to its await: what it returns when it returns at
\* once, Undefined when it goes on to market.findOpenOrdersAccountForOwner
getOpenOrdersAccounts_Early(isConnected, w, market) ==
    IF ~isConnected \/ ~Truthy(w) THEN Resolved(Null)
    ELSE IF ~Truthy(market) THEN Resolved(Null)
    ELSE Undefined

\* getAllOpenOrdersAccounts up to its await: what it returns when it returns
\* at once, Undefined when it goes on to OpenOrders.load for every market
getAllOpenOrdersAccounts_Early(isConnected, w) ==
    IF ~isConnected \/ ~Truthy(w) THEN Resolved(Array(<<>>))
    ELSE Undefined

Authed == connected /\ Truthy(wallet)

\* the user picks a wallet (or none): a new wallet object, not connected yet
WalletSelected ==
    /\ \E w \in Wallets \cup {Null} : w # wallet /\ wallet' = w
    /\ connected' = FALSE
    /\ UNCHANGED <<fetMarket, inflight, settled>>
    /\ UNCHANGED notFetchVars

WalletConnected ==
    /\ Truthy(wallet) /\ ~connected
    /\ connected' = TRUE
    /\ UNCHANGED <<wallet, fetMarket, inflight, settled>>
    /\ UNCHANGED notFetchVars

WalletDisconnected ==
    /\ connected
    /\ connected' = FALSE
    /\ UNCHANGED <<wallet, fetMarket, inflight, settled>>
    /\ UNCHANGED notFetchVars

FetMarketChanged ==
    /\ fetMarket' = IF Truthy(fetMarket) THEN Null ELSE Market("mint1", "mint2", 0, 0)
    /\ UNCHANGED <<connected, wallet, inflight, settled>>
    /\ UNCHANGED notFetchVars

\* the cache invokes getOpenOrdersAccounts
InvokeGetOpenOrdersAccounts ==
    /\ Len(inflight) < MaxInflight
    /\ LET early == getOpenOrdersAccounts_Early(connected, wallet, fetMarket)
       IN  IF early # Undefined
           THEN /\ settled' = Outcome("getOpenOrdersAccounts", Authed, early.status,
                                      early.value, 0)
                /\ UNCHANGED inflight
           ELSE /\ inflight' = Append(inflight, [fetcher |-> "getOpenOrdersAccounts",
                                                 authed |-> Authed,
                                                 owner |-> wallet.publicKey, dsCalls |-> 1])
                /\ UNCHANGED settled
    /\ UNCHANGED <<connected, wallet, fetMarket>>
    /\ UNCHANGED notFetchVars

\* the cache invokes getAllOpenOrdersAccounts
InvokeGetAllOpenOrdersAccounts ==
    /\ Len(inflight) < MaxInflight
    /\ LET early == getAllOpenOrdersAccounts_Early(connected, wallet)
       IN  IF early # Undefined
           THEN /\ settled' = Outcome("getAllOpenOrdersAccounts", Authed, early.status,
                                      early.value, 0)
                /\ UNCHANGED inflight
           ELSE /\ inflight' = Append(inflight, [fetcher |-> "getAllOpenOrdersAccounts",
                                                 authed |-> Authed,
                                                 owner |-> wallet.publicKey,
                                                 dsCalls |-> NumMarkets])
                /\ UNCHANGED settled
    /\ UNCHANGED <<connected, wallet, fetMarket>>
    /\ UNCHANGED notFetchVars

\* the data source answers a waiting invocation with the owner's accounts
DataSourceAnswers ==
    /\ \E i \in 1..Len(inflight) :
         \E accts \in OwnerAccounts(inflight[i].owner) :
            /\ settled' = Outcome(inflight[i].fetcher, inflight[i].authed, "resolved",
                                  Array(accts), inflight[i].dsCalls)
            /\ inflight' = RemoveAt(inflight, i)
    /\ UNCHANGED <<connected, wallet, fetMarket>>
    /\ UNCHANGED notFetchVars

\* the data source fails: the await throws and the invocation rejects
DataSourceFails ==
    /\ \E i \in 1..Len(inflight) :
            /\ settled' = Outcome(inflight[i].fetcher, inflight[i].authed, Rejected.status,
                                  Rejected.value, inflight[i].dsCalls)
            /\ inflight' = RemoveAt(inflight, i)
    /\ UNCHANGED <<connected, wallet, fetMarket>>
    /\ UNCHANGED notFetchVars

FetchNext ==
    \/ WalletSelected
    \/ WalletConnected
    \/ WalletDisconnected
    \/ FetMarketChanged
    \/ InvokeGetOpenOrdersAccounts
    \/ InvokeGetAllOpenOrdersAccounts
    \/ DataSourceAnswers
    \/ DataSourceFails

----------------------------------------------------------------------------
(* useAllOpenOrders: its effect starts getAllOpenOrders whenever connection, *)
(* connected, wallet or the refresh counter changed and a wallet is          *)
(* connected; refreshOpenOrders bumps the counter at most every ten seconds. *)

MaxLoads == 2       \* getAllOpenOrders executions running at once
MaxRefresh == 2     \* the refresh counter is capped here
MaxLongWaits == 1   \* times the clock advances by the throttle interval
MaxShortWaits == 1  \* times the clock advances by one millisecond

RefreshThrottleMs == 10 * 1000

\* the clock starts past the throttle interval (lastRefresh starts at 0 and
\* Date.getTime() is far larger), and advances by 1 ms or by the interval
StartTime == RefreshThrottleMs + 1
LongWaits(time) == (time - StartTime) \div RefreshThrottleMs
ShortWaits(time) == (time - StartTime) % RefreshThrottleMs

\* one element of _openOrders: the owner's orders on one market
MarketOrders(owner, m) == [orders |-> [owner |-> owner], marketAddress |-> m]

\* the body of the effect: with a connected wallet getAllOpenOrders starts
\* (setLoaded(false), then one getOpenOrdersForMarket per market of
\* USE_MARKETS), else nothing happens.  isConnected and w are the values of
\* the render the effect belongs to.
RunOrdersEffect(isConnected, w) ==
    IF isConnected /\ Truthy(w)
    THEN /\ loaded' = FALSE
         /\ loads' = Append([i \in 1..Len(loads) |-> [loads[i] EXCEPT !.latest = FALSE]],
                            [owner |-> w.publicKey, pending |-> 1..NumMarkets,
                             got |-> <<>>, latest |-> TRUE])
         /\ latestPublished' = FALSE
    ELSE UNCHANGED <<loaded, loads, latestPublished>>

CanStartLoad == Len(loads) < MaxLoads

\* the user picks a wallet (or none): a new wallet object, not connected yet
OrdersWalletSelected ==
    /\ \E w \in Wallets \cup {Null} : w # wallet /\ wallet' = w
    /\ connected' = FALSE
    /\ RunOrdersEffect(FALSE, wallet')
    /\ UNCHANGED <<refresh, openOrders, lastRefresh, now, refreshLoadAt>>
    /\ UNCHANGED notOrdersVars

OrdersWalletConnected ==
    /\ Truthy(wallet) /\ ~connected /\ CanStartLoad
    /\ connected' = TRUE
    /\ RunOrdersEffect(TRUE, wallet)
    /\ UNCHANGED <<wallet, refresh, openOrders, lastRefresh, now, refreshLoadAt>>
    /\ UNCHANGED notOrdersVars

OrdersWalletDisconnected ==
    /\ connected
    /\ connected' = FALSE
    /\ RunOrdersEffect(FALSE, wallet)
    /\ UNCHANGED <<wallet, refresh, openOrders, lastRefresh, now, refreshLoadAt>>
    /\ UNCHANGED notOrdersVars

\* useConnection() returns another connection (the endpoint changed)
OrdersConnectionChanged ==
    /\ CanStartLoad
    /\ RunOrdersEffect(connected, wallet)
    /\ UNCHANGED <<connected, wallet, refresh, openOrders, lastRefresh, now, refreshLoadAt>>
    /\ UNCHANGED notOrdersVars

\* refreshOpenOrders(): later than the throttle interval after the last
\* completed load it increments the counter, which runs the effect again
refreshOpenOrders ==
    /\ CanStartLoad /\ refresh < MaxRefresh
    /\ IF now - lastRefresh > RefreshThrottleMs
       THEN /\ refresh' = refresh + 1
            /\ RunOrdersEffect(connected, wallet)
            /\ refreshLoadAt' = IF connected /\ Truthy(wallet) THEN now ELSE refreshLoadAt
       ELSE UNCHANGED <<refresh, loaded, loads, latestPublished, refreshLoadAt>>
    /\ UNCHANGED <<connected, wallet, openOrders, lastRefresh, now>>
    /\ UNCHANGED notOrdersVars

\* getOpenOrdersForMarket of one running load finishes for one market: the
\* orders are pushed, or the error is swallowed.  When it was the load's last
\* market, Promise.all resolves and the load publishes what it collected.
OrdersMarketDone ==
    /\ \E i \in 1..Len(loads) :
         \E m \in loads[i].pending, ok \in BOOLEAN :
            LET got == IF ok THEN Append(loads[i].got, MarketOrders(loads[i].owner, m))
                       ELSE loads[i].got
                stillPending == loads[i].pending \ {m}
            IN  IF stillPending = {}
                THEN /\ openOrders' = Array(got)
                     /\ lastRefresh' = now
                     /\ loaded' = TRUE
                     /\ latestPublished' = loads[i].latest
                     /\ loads' = RemoveAt(loads, i)
                ELSE /\ loads' = [loads EXCEPT ![i] = [@ EXCEPT !.pending = stillPending,
                                                                !.got = got]]
                     /\ UNCHANGED <<openOrders, lastRefresh, loaded, latestPublished>>
    /\ UNCHANGED <<connected, wallet, refresh, now, refreshLoadAt>>
    /\ UNCHANGED notOrdersVars

\* time passes
OrdersClockAdvances ==
    /\ \/ LongWaits(now) < MaxLongWaits /\ now' = now + RefreshThrottleMs
       \/ ShortWaits(now) < MaxShortWaits /\ now' = now + 1
    /\ UNCHANGED <<connected, wallet, loaded, refresh, openOrders, lastRefresh, loads,
                   latestPublished, refreshLoadAt>>
    /\ UNCHANGED notOrdersVars

OrdersNext ==
    \/ OrdersWalletSelected
    \/ OrdersWalletConnected
    \/ OrdersWalletDisconnected
    \/ OrdersConnectionChanged
    \/ refreshOpenOrders
    \/ OrdersMarketDone
    \/ OrdersClockAdvances

----------------------------------------------------------------------------
(* Cache keys.  useAsyncData is handed tuple(name, ...args) of                *)
(* immutable-tuple: tuples are interned, so two tuples are the same key when *)
(* their elements are the same, primitives by value and objects by           *)
(* reference.                                                                *)

MaxObjects == 4     \* objects allocated over a run
MaxSlots == 3       \* keys the cache has seen

Ref(a) == [t |-> "ref", addr |-> a]
True == [t |-> "true"]
Bool(b) == IF b THEN True ELSE False

WalletObject(k) == [kind |-> "wallet", publicKey |-> k]
MarketObject(a) == [kind |-> "market", address |-> a]
ConnectionObject(e) == [kind |-> "connection", endpoint |-> e]

\* tuple(...items): the interned tuple is determined by its items as
\* JavaScript compares them, a reference standing for the object it points to
tuple(items) == [t |-> "tuple", items |-> items]

\* the key of useOpenOrdersAccounts
KeyGetOpenOrdersAccounts(w, market, isConnected) ==
    tuple(<<String("getOpenOrdersAccounts"), w, market, Bool(isConnected)>>)

\* the key of _useUnfilteredTrades
KeyGetUnfilteredTrades(market, connection) ==
    tuple(<<String("getUnfilteredTrades"), market, connection>>)

\* the wallet provider creates a wallet object for the chosen owner
KeyWalletCreated ==
    /\ Len(heap) < MaxObjects
    /\ \E k \in 1..MaxOwners : heap' = Append(heap, WalletObject(k))
    /\ keyWallet' = Ref(Len(heap) + 1)
    /\ keyConnected' = FALSE
    /\ UNCHANGED <<keyMarket, keyConnection, cacheKeys>>
    /\ UNCHANGED notKeyVars

\* Market.load resolves: MarketProvider holds a newly decoded market object
\* (every load decodes a new object, also for an address loaded before)
KeyMarketLoaded ==
    /\ Len(heap) < MaxObjects
    /\ heap' = Append(heap, MarketObject(1))
    /\ keyMarket' = Ref(Len(heap) + 1)
    /\ UNCHANGED <<keyWallet, keyConnection, keyConnected, cacheKeys>>
    /\ UNCHANGED notKeyVars

KeyConnectedChanged ==
    /\ Truthy(keyWallet)
    /\ keyConnected' = ~keyConnected
    /\ UNCHANGED <<heap, keyWallet, keyMarket, keyConnection, cacheKeys>>
    /\ UNCHANGED notKeyVars

\* a render of useOpenOrdersAccounts and _useUnfilteredTrades hands their
\* keys to useAsyncData
KeyRender ==
    /\ cacheKeys' = cacheKeys \cup { KeyGetOpenOrdersAccounts(keyWallet, keyMarket, keyConnected),
                                     KeyGetUnfilteredTrades(keyMarket, keyConnection) }
    /\ Cardinality(cacheKeys') <= MaxSlots
    /\ UNCHANGED <<heap, keyWallet, keyMarket, keyConnection, keyConnected>>
    /\ UNCHANGED notKeyVars

KeyNext ==
    \/ KeyWalletCreated
    \/ KeyMarketLoaded
    \/ KeyConnectedChanged
    \/ KeyRender

----------------------------------------------------------------------------
(* The async result cache behind useAsyncData (./fetch-loop), as spec 4.2   *)
(* and 5 describe it, with the two consumers of getOpenOrdersAccounts:      *)
(* useOpenOrdersAccounts(true) and useOpenOrdersAccounts(false).            *)

MaxFetches == 3     \* fetcher invocations the cache starts over a run

\* the consumers, by their argument `fast`
Consumers == BOOLEAN

\* the wallet and the market the consumers render with
CacheWallet == Ref(1)
CacheMarket == Ref(2)

\* the key with the refresh interval of the consumer added to it
ConsumerKey_PerInterval(fast) ==
    tuple(<<String("getOpenOrdersAccounts"), CacheWallet, CacheMarket,
            Bool(cacheConnected), Bool(fast)>>)

\* the key useOpenOrdersAccounts(fast) hands to useAsyncData: fast chooses the
\* refresh interval only
ConsumerKey(fast) ==
    KeyGetOpenOrdersAccounts(CacheWallet, CacheMarket, cacheConnected)

\* a cache entry nothing has been stored in
EmptyEntry ==
    [value |-> Undefined, error |-> Undefined, isFetching |-> FALSE,
     generation |-> 0, subscribers |-> {}, fetcher |-> Undefined]

EntryOf(k) == IF k \in DOMAIN entries THEN entries[k] ELSE EmptyEntry

TransportError == [t |-> "error"]

\* dedup: a fetch starts only when none is in flight for the fingerprint
StartsFetch(e) == ~e.isFetching

\* on fetch start: isFetching is set and the next generation is issued
OnFetchStart(e) == [e EXCEPT !.isFetching = TRUE, !.generation = @ + 1]

\* a completion is applied only if its generation is the latest issued
CompletionApplies(e, gen) == gen = e.generation

\* on success: store the value, clear the error, clear isFetching
OnSuccess(e, v) == [e EXCEPT !.value = v, !.error = Undefined, !.isFetching = FALSE]

\* a failure that drops the stored value with the error
OnFailure_ClearsValue(e) ==
    [e EXCEPT !.value = Undefined, !.error = TransportError, !.isFetching = FALSE]

\* on failure: store the error, leave the value, clear isFetching
OnFailure(e) == [e EXCEPT !.error = TransportError, !.isFetching = FALSE]

\* what a subscriber is handed: the value and the error of the entry
Observed(e) == [value |-> e.value, error |-> e.error]

\* getOpenOrdersAccounts as a consumer hands it to useAsyncData: a closure
\* over the connected it rendered with
Fetcher == [connected |-> cacheConnected]

\* the fetcher invocation the cache starts for key k: the entry's fetcher runs
Invocation(k, e) == [key |-> k, gen |-> e.generation + 1, connected |-> e.fetcher.connected]

\* the entry and the pending set after a fetch was asked for on entry e of k
AfterAsk(k, e, wanted) ==
    IF wanted /\ StartsFetch(e)
    THEN [entry |-> OnFetchStart(e), pending |-> pending \cup {Invocation(k, e)}, started |-> 1]
    ELSE [entry |-> e, pending |-> pending, started |-> 0]

\* the wallet connects or disconnects: the consumers' key changes
CacheConnectedChanged ==
    /\ cacheConnected' = ~cacheConnected
    /\ UNCHANGED <<entries, pending, subscribedTo, seen, fetchesStarted>>
    /\ UNCHANGED notCacheVars

\* useAsyncData's effect of a consumer: it leaves the key it was subscribed
\* to and subscribes to its current key; subscribe returns the last known
\* value and schedules a fetch if none is fresh or in flight
CacheSubscribe ==
    /\ \E fast \in Consumers, fresh \in BOOLEAN :
         LET k == ConsumerKey(fast)
             old == subscribedTo[fast]
             left == IF old = Undefined THEN entries
                     ELSE [entries EXCEPT ![old].subscribers = @ \ {fast}]
             e == IF k \in DOMAIN left THEN left[k] ELSE EmptyEntry
             joined == [e EXCEPT !.subscribers = @ \cup {fast}, !.fetcher = Fetcher]
             asked == AfterAsk(k, joined, ~(fresh /\ e.value # Undefined))
         IN  /\ old # k
             /\ fetchesStarted + asked.started <= MaxFetches
             /\ entries' = (k :> asked.entry) @@ left
             /\ pending' = asked.pending
             /\ fetchesStarted' = fetchesStarted + asked.started
             /\ subscribedTo' = [subscribedTo EXCEPT ![fast] = k]
             /\ seen' = [seen EXCEPT ![fast] = Observed(e)]
    /\ UNCHANGED cacheConnected
    /\ UNCHANGED notCacheVars

\* a consumer unmounts
CacheUnsubscribe ==
    /\ \E fast \in Consumers :
         /\ subscribedTo[fast] # Undefined
         /\ entries' = [entries EXCEPT ![subscribedTo[fast]].subscribers = @ \ {fast}]
         /\ subscribedTo' = [subscribedTo EXCEPT ![fast] = Undefined]
    /\ UNCHANGED <<cacheConnected, pending, seen, fetchesStarted>>
    /\ UNCHANGED notCacheVars

\* refresh(fingerprint): an immediate fetch, unless one is in flight
CacheRefresh ==
    /\ \E k \in DOMAIN entries :
         LET asked == AfterAsk(k, entries[k], TRUE)
         IN  /\ fetchesStarted + asked.started <= MaxFetches
             /\ entries' = [entries EXCEPT ![k] = asked.entry]
             /\ pending' = asked.pending
             /\ fetchesStarted' = fetchesStarted + asked.started
    /\ UNCHANGED <<cacheConnected, subscribedTo, seen>>
    /\ UNCHANGED notCacheVars

\* the scheduler tick finds a subscribed entry due and not fetching
CacheTick ==
    /\ \E k \in DOMAIN entries :
         LET asked == AfterAsk(k, entries[k], TRUE)
         IN  /\ entries[k].subscribers # {}
             /\ ~entries[k].isFetching
             /\ fetchesStarted + asked.started <= MaxFetches
             /\ entries' = [entries EXCEPT ![k] = asked.entry]
             /\ pending' = asked.pending
             /\ fetchesStarted' = fetchesStarted + asked.started
    /\ UNCHANGED <<cacheConnected, subscribedTo, seen>>
    /\ UNCHANGED notCacheVars

\* what an invocation of getOpenOrdersAccounts can resolve to
FetcherValues(p) ==
    LET early == getOpenOrdersAccounts_Early(p.connected, Wallet(1),
                                             Market("mint1", "mint2", 0, 0))
    IN  IF early # Undefined THEN {early.value}
        ELSE { Array(a) : a \in OwnerAccounts(1) }

\* the entry after a completion, and the subscribers told of it
Completed(p, after) ==
    LET e == entries[p.key]
        applied == CompletionApplies(e, p.gen)
        e1 == IF applied THEN after ELSE e
    IN  /\ entries' = [entries EXCEPT ![p.key] = e1]
        /\ pending' = pending \ {p}
        /\ seen' = [c \in Consumers |->
                      IF applied /\ c \in e.subscribers THEN Observed(e1) ELSE seen[c]]

\* a pending invocation resolves
CacheFetchSucceeds ==
    /\ \E p \in pending : \E v \in FetcherValues(p) :
         Completed(p, OnSuccess(entries[p.key], v))
    /\ UNCHANGED <<cacheConnected, subscribedTo, fetchesStarted>>
    /\ UNCHANGED notCacheVars

\* a pending invocation that went to the data source rejects
CacheFetchFails ==
    /\ \E p \in pending :
         /\ getOpenOrdersAccounts_Early(p.connected, Wallet(1),
                                        Market("mint1", "mint2", 0, 0)) = Undefined
         /\ Completed(p, OnFailure(entries[p.key]))
    /\ UNCHANGED <<cacheConnected, subscribedTo, fetchesStarted>>
    /\ UNCHANGED notCacheVars

\* an entry without subscribers and without a fetch in flight is reclaimed
CacheEvict ==
    /\ \E k \in DOMAIN entries :
         /\ entries[k].subscribers = {}
         /\ ~entries[k].isFetching
         /\ entries' = [j \in DOMAIN entries \ {k} |-> entries[j]]
    /\ UNCHANGED <<cacheConnected, pending, subscribedTo, seen, fetchesStarted>>
    /\ UNCHANGED notCacheVars

CacheNext ==
    \/ CacheConnectedChanged
    \/ CacheSubscribe
    \/ CacheUnsubscribe
    \/ CacheRefresh
    \/ CacheTick
    \/ CacheFetchSucceeds
    \/ CacheFetchFails
    \/ CacheEvict

----------------------------------------------------------------------------
(* The resolvers as fetchers: getAllMarkets, the fetcher of                 *)
(* useOrderbookAccounts and getOpenOrdersAccounts, each run against a data  *)
(* source whose calls can fail.                                             *)

MaxCustomMarkets == 1   \* custom markets the user has added
MaxRunning == 2         \* resolver invocations waiting for the data source at once

\* getMarketInfos(customMarkets): the custom markets and USE_MARKETS
MarketInfos(customMarkets) == 1..(customMarkets + NumMarkets)

\* a running invocation: the data-source calls it waits for, what the calls
\* answered so far, and bookkeeping (calls made, calls that failed)
Running(fetcher, calls, owner) ==
    [fetcher |-> fetcher, todo |-> calls, results |-> [c \in calls |-> Undefined],
     owner |-> owner, dsCalls |-> Cardinality(calls), dsFailures |-> 0]

\* how an invocation settled, with the bookkeeping of its calls
ResolverOutcome(fetcher, status, value, dsCalls, dsFailures) ==
    [t |-> "outcome", fetcher |-> fetcher, status |-> status, value |-> value,
     dsCalls |-> dsCalls, dsFailures |-> dsFailures]

LoadedMarket(i) ==
    [t |-> "object", market |-> MarketObject(i), marketName |-> i, programId |-> i]
LoadedOrderbook == [t |-> "orderbook", bids |-> <<>>, asks |-> <<>>]

\* the fetcher of useOrderbookAccounts up to its await
OrderbookFn_Early(market) ==
    IF ~Truthy(market) THEN Resolved(Undefined) ELSE Undefined

\* what a data-source call of an invocation can answer
CallAnswers(run, c) ==
    IF run.fetcher = "getAllMarkets" THEN {LoadedMarket(c)}
    ELSE IF run.fetcher = "useOrderbookAccounts" THEN {LoadedOrderbook}
    ELSE { Array(a) : a \in OwnerAccounts(run.owner) }

\* markets.filter((m) => !!m), in the order of the market infos
RECURSIVE FilterLoaded(_, _)
FilterLoaded(results, n) ==
    IF n = 0 THEN <<>>
    ELSE LET rest == FilterLoaded(results, n - 1)
         IN  IF Truthy(results[n]) THEN Append(rest, results[n]) ELSE rest

\* what one call of an invocation leaves as its result: the mapper of
\* getAllMarkets catches a failed Market.load and returns null for it; the
\* other two fetchers await the call bare
CallResult(run, ok, answer) ==
    IF ok THEN [thrown |-> FALSE, value |-> answer]
    ELSE IF run.fetcher = "getAllMarkets" THEN [thrown |-> FALSE, value |-> Null]
    ELSE [thrown |-> TRUE, value |-> Undefined]

\* the invocation after call c came back
AfterCall(run, c, ok, answer) ==
    LET r == CallResult(run, ok, answer)
        run1 == [run EXCEPT !.todo = @ \ {c}, !.results[c] = r.value,
                            !.dsFailures = @ + (IF ok THEN 0 ELSE 1)]
    IN  IF r.thrown
        THEN [done |-> TRUE,
              outcome |-> ResolverOutcome(run.fetcher, Rejected.status, Rejected.value,
                                          run1.dsCalls, run1.dsFailures)]
        ELSE IF run1.todo # {} THEN [done |-> FALSE, run |-> run1]
        ELSE [done |-> TRUE,
              outcome |-> ResolverOutcome(run.fetcher, "resolved",
                             IF run.fetcher = "getAllMarkets"
                             THEN Array(FilterLoaded(run1.results, run1.dsCalls))
                             ELSE r.value,
                             run1.dsCalls, run1.dsFailures)]

\* an invocation that returned before any await
SettledEarly(fetcher, early) ==
    ResolverOutcome(fetcher, early.status, early.value, 0, 0)

\* the cache invokes getAllMarkets: Market.load starts for every market info
ResolveGetAllMarkets ==
    /\ Len(resRunning) < MaxRunning
    /\ \E customMarkets \in 0..MaxCustomMarkets :
         resRunning' = Append(resRunning,
                              Running("getAllMarkets", MarketInfos(customMarkets), Null))
    /\ UNCHANGED resSettled
    /\ UNCHANGED notResVars

\* the cache invokes the fetcher of useOrderbookAccounts
ResolveOrderbook ==
    /\ Len(resRunning) < MaxRunning
    /\ LET early == OrderbookFn_Early(fetMarket)
       IN  IF early # Undefined
           THEN /\ resSettled' = SettledEarly("useOrderbookAccounts", early)
                /\ UNCHANGED resRunning
           ELSE /\ resRunning' = Append(resRunning, Running("useOrderbookAccounts", {1}, Null))
                /\ UNCHANGED resSettled
    /\ UNCHANGED notResVars

\* the cache invokes getOpenOrdersAccounts
ResolveGetOpenOrdersAccounts ==
    /\ Len(resRunning) < MaxRunning
    /\ LET early == getOpenOrdersAccounts_Early(connected, wallet, fetMarket)
       IN  IF early # Undefined
           THEN /\ resSettled' = SettledEarly("getOpenOrdersAccounts", early)
                /\ UNCHANGED resRunning
           ELSE /\ resRunning' = Append(resRunning,
                                        Running("getOpenOrdersAccounts", {1}, wallet.publicKey))
                /\ UNCHANGED resSettled
    /\ UNCHANGED notResVars

\* a data-source call of a running invocation comes back
CallReturns(ok) ==
    \E i \in 1..Len(resRunning) : \E c \in resRunning[i].todo :
        \E answer \in CallAnswers(resRunning[i], c) :
            LET after == AfterCall(resRunning[i], c, ok, answer)
            IN  IF after.done
                THEN /\ resSettled' = after.outcome
                     /\ resRunning' = RemoveAt(resRunning, i)
                ELSE /\ resRunning' = [resRunning EXCEPT ![i] = after.run]
                     /\ UNCHANGED resSettled

ResolveCallAnswers ==
    /\ CallReturns(TRUE)
    /\ UNCHANGED notResVars

ResolveCallFails ==
    /\ CallReturns(FALSE)
    /\ UNCHANGED notResVars

ResolveNext ==
    \/ WalletSelected
    \/ WalletConnected
    \/ WalletDisconnected
    \/ FetMarketChanged
    \/ ResolveGetAllMarkets
    \/ ResolveOrderbook
    \/ ResolveGetOpenOrdersAccounts
    \/ ResolveCallAnswers
    \/ ResolveCallFails

----------------------------------------------------------------------------
(* The wallet balance of the selected base and quote currency:             *)
(* useSelectedBaseCurrencyBalances and useSelectedQuoteCurrencyBalances    *)
(* with the hooks they read.                                               *)

MaxLamports == 1    \* native ledger balance of an account
MaxRawAmount == 1   \* token amount of an account, in units of 257

WRAPPED_SOL_MINT == "wsol"

\* market?.baseMintAddress without a market, account?.pubkey without an
\* account: undefined, among the mints (strings) and the pubkeys (numbers)
NoMint == "undefined"
NoPubkey == 0

\* the markets the balances are read for: either side can be the native mint
WalletMarkets ==
    { Market(bm, qm, d[1], d[2]) : bm \in {WRAPPED_SOL_MINT, "mint1"},
                                   qm \in {WRAPPED_SOL_MINT, "mint2"},
                                   d \in {<<0, 1>>, <<1, 0>>} }
WalletMints == {WRAPPED_SOL_MINT, "mint1", "mint2"}
Pubkeys == {1, 2}

TokenAccount(pubkey, effectiveMint) ==
    [t |-> "tokenaccount", pubkey |-> pubkey, effectiveMint |-> effectiveMint]

\* what getTokenAccounts can resolve to: the account at position i has pubkey i
TokenAccountLists ==
    {<<>>} \cup { <<TokenAccount(1, m)>> : m \in WalletMints }
           \cup { <<TokenAccount(1, m), TokenAccount(2, n)>> : m, n \in WalletMints }

\* the bytes of a token account: mint (32), owner (32), amount (8, little
\* endian)
RECURSIVE Byte(_, _)
Byte(a, i) == IF i = 1 THEN a % 256 ELSE Byte(a \div 256, i - 1)
TokenAccountData(amount) ==
    [i \in 1..72 |-> IF i <= 32 THEN 3 ELSE IF i <= 64 THEN 5 ELSE Byte(amount, i - 64)]

\* data.slice(start, end)
Slice(data, start, end) == SubSeq(data, start + 1, end)

\* new BN(bytes, 10, 'le')
RECURSIVE LittleEndian(_, _)
LittleEndian(bytes, i) ==
    IF i > Len(bytes) THEN 0 ELSE bytes[i] + 256 * LittleEndian(bytes, i + 1)
BnFromLE(bytes) == BN(LittleEndian(bytes, 1))

AccountInfo(lamports, amount) ==
    [t |-> "accountinfo", lamports |-> lamports, data |-> TokenAccountData(amount)]
RawAmounts == { a * 257 : a \in 0..MaxRawAmount }
AccountInfos == { AccountInfo(l, a) : l \in 0..MaxLamports, a \in RawAmounts }

\* useAccountInfo(pubkey): [accountInfo, loaded]
useAccountInfo(pubkey) ==
    IF pubkey = NoPubkey THEN [accountInfo |-> Undefined, loaded |-> FALSE]
    ELSE [accountInfo |-> walInfo[pubkey].accountInfo, loaded |-> walInfo[pubkey].loaded]

\* accounts.filter(...)[0]
RECURSIVE FirstMatch(_, _, _, _)
FirstMatch(items, i, mint, selectedPubKey) ==
    IF i > Len(items) THEN Undefined
    ELSE IF /\ items[i].effectiveMint = mint
            /\ (~Truthy(selectedPubKey) \/ selectedPubKey.n = items[i].pubkey)
         THEN items[i]
         ELSE FirstMatch(items, i + 1, mint, selectedPubKey)

getSelectedTokenAccountForMint(accounts, mint, selectedPubKey) ==
    IF ~Truthy(accounts) \/ mint = NoMint THEN Null
    ELSE FirstMatch(accounts.items, 1, mint, selectedPubKey)

\* selectedTokenAccounts[mint]
SelectedFor(mint) ==
    IF mint = NoMint THEN Undefined ELSE walSelected[mint]

useSelectedQuoteCurrencyAccount ==
    LET mintAddress == IF Truthy(walMarket) THEN walMarket.quoteMintAddress ELSE NoMint
    IN  getSelectedTokenAccountForMint(walAccounts, mintAddress, SelectedFor(mintAddress))

useSelectedBaseCurrencyAccount ==
    LET mintAddress == IF Truthy(walMarket) THEN walMarket.baseMintAddress ELSE NoMint
    IN  getSelectedTokenAccountForMint(walAccounts, mintAddress, SelectedFor(mintAddress))

\* a ?? b
Coalesce(a, b) == IF a.t \in {"null", "undefined"} THEN b ELSE a

\* accountInfo?.lamports / 1e9 ?? 0
NativeBalance(accountInfo) ==
    Coalesce(JsDiv(Int2Num(accountInfo.lamports), Int2Num(10 ^ 9)), Int2Num(0))

useSelectedQuoteCurrencyBalances ==
    LET quoteCurrencyAccount == useSelectedQuoteCurrencyAccount
        info == useAccountInfo(IF Truthy(quoteCurrencyAccount)
                               THEN quoteCurrencyAccount.pubkey ELSE NoPubkey)
    IN  IF \/ ~Truthy(walMarket) \/ ~Truthy(quoteCurrencyAccount)
           \/ ~info.loaded \/ ~Truthy(info.accountInfo)
        THEN Null
        ELSE IF walMarket.quoteMintAddress = WRAPPED_SOL_MINT
        THEN NativeBalance(info.accountInfo)
        ELSE quoteSplSizeToNumber(walMarket, BnFromLE(Slice(info.accountInfo.data, 64, 72)))

\* the base balance with the native mint scaled like any other mint
useSelectedBaseCurrencyBalances_MarketDecimals ==
    LET baseCurrencyAccount == useSelectedBaseCurrencyAccount
        info == useAccountInfo(IF Truthy(baseCurrencyAccount)
                               THEN baseCurrencyAccount.pubkey ELSE NoPubkey)
    IN  IF \/ ~Truthy(walMarket) \/ ~Truthy(baseCurrencyAccount)
           \/ ~info.loaded \/ ~Truthy(info.accountInfo)
        THEN Null
        ELSE IF walMarket.baseMintAddress = WRAPPED_SOL_MINT
        THEN baseSplSizeToNumber(walMarket, BN(info.accountInfo.lamports))
        ELSE baseSplSizeToNumber(walMarket, BnFromLE(Slice(info.accountInfo.data, 64, 72)))

useSelectedBaseCurrencyBalances ==
    LET baseCurrencyAccount == useSelectedBaseCurrencyAccount
        info == useAccountInfo(IF Truthy(baseCurrencyAccount)
                               THEN baseCurrencyAccount.pubkey ELSE NoPubkey)
    IN  IF \/ ~Truthy(walMarket) \/ ~Truthy(baseCurrencyAccount)
           \/ ~info.loaded \/ ~Truthy(info.accountInfo)
        THEN Null
        ELSE IF walMarket.baseMintAddress = WRAPPED_SOL_MINT
        THEN NativeBalance(info.accountInfo)
        ELSE baseSplSizeToNumber(walMarket, BnFromLE(Slice(info.accountInfo.data, 64, 72)))

\* the selected market changes
WalMarketChanged ==
    /\ \E m \in WalletMarkets \cup {Null} : m # walMarket /\ walMarket' = m
    /\ UNCHANGED <<walAccounts, walSelected, walInfo>>
    /\ UNCHANGED notWalVars

\* getTokenAccounts resolves (null without a connected wallet)
WalTokenAccountsFetched ==
    /\ \E a \in { Array(s) : s \in TokenAccountLists } \cup {Null} :
         a # walAccounts /\ walAccounts' = a
    /\ UNCHANGED <<walMarket, walSelected, walInfo>>
    /\ UNCHANGED notWalVars

\* the user selects a token account for a mint, or clears the selection
WalAccountSelected ==
    /\ \E m \in WalletMints : \E k \in { Int2Num(p) : p \in Pubkeys } \cup {Undefined} :
         /\ k # walSelected[m]
         /\ walSelected' = [n \in WalletMints |-> IF n = m THEN k ELSE Undefined]
    /\ UNCHANGED <<walMarket, walAccounts, walInfo>>
    /\ UNCHANGED notWalVars

\* the account info of a pubkey loads: the info, or null for an account that
\* does not exist
WalAccountInfoLoaded ==
    /\ \E p \in Pubkeys : \E i \in AccountInfos \cup {Null} :
         /\ [accountInfo |-> i, loaded |-> TRUE] # walInfo[p]
         /\ walInfo' = [walInfo EXCEPT ![p] = [accountInfo |-> i, loaded |-> TRUE]]
    /\ UNCHANGED <<walMarket, walAccounts, walSelected>>
    /\ UNCHANGED notWalVars

WalNext ==
    \/ WalMarketChanged
    \/ WalTokenAccountsFetched
    \/ WalAccountSelected
    \/ WalAccountInfoLoaded

----------------------------------------------------------------------------
(* The state after the components are mounted, before any data has arrived *)

Init ==
    /\ marketLoaded = FALSE
    /\ orderbook = Undefined
    /\ fills = Null
    /\ markPrice = Null
    /\ effectDue = TRUE
    /\ fpBook = [t |-> "orderbook", bids |-> <<>>, asks |-> <<>>]
    /\ fpCost = 1
    /\ fpAsks = TRUE
    /\ fpTick = Undefined
    /\ fpResult = Undefined
    /\ balMarket = Null
    /\ balAccounts = Null
    /\ connected = FALSE
    /\ wallet = Null
    /\ fetMarket = Null
    /\ inflight = <<>>
    /\ settled = Undefined
    /\ loaded = FALSE
    /\ refresh = 0
    /\ openOrders = Null
    /\ lastRefresh = 0
    /\ now = RefreshThrottleMs + 1
    /\ loads = <<>>
    /\ latestPublished = TRUE
    /\ refreshLoadAt = 0
    /\ heap = <<ConnectionObject(1)>>
    /\ keyWallet = Null
    /\ keyMarket = Null
    /\ keyConnection = Ref(1)
    /\ keyConnected = FALSE
    /\ cacheKeys = {}
    /\ cacheConnected = FALSE
    /\ entries = [k \in {} |-> EmptyEntry]
    /\ pending = {}
    /\ subscribedTo = [c \in Consumers |-> Undefined]
    /\ seen = [c \in Consumers |-> Observed(EmptyEntry)]
    /\ fetchesStarted = 0
    /\ resRunning = <<>>
    /\ resSettled = Undefined
    /\ walMarket = Null
    /\ walAccounts = Undefined
    /\ walSelected = [m \in WalletMints |-> Undefined]
    /\ walInfo = [p \in Pubkeys |-> [accountInfo |-> Undefined, loaded |-> FALSE]]

SpecMark == Init /\ [][MarkNext]_vars
SpecFill == Init /\ [][FillNext]_vars
SpecBal == Init /\ [][BalNext]_vars
SpecFetch == Init /\ [][FetchNext]_vars
SpecOrders == Init /\ [][OrdersNext]_vars
SpecKeys == Init /\ [][KeyNext]_vars
SpecCache == Init /\ [][CacheNext]_vars
SpecResolve == Init /\ [][ResolveNext]_vars
SpecWallet == Init /\ [][WalNext]_vars

----------------------------------------------------------------------------
(* Claims about the mark price (SpecMark) *)

BothSidesHeld == Len(CurOrderbook.bids) > 0 /\ Len(CurOrderbook.asks) > 0
BestBid == CurOrderbook.bids[1][1]
BestAsk == CurOrderbook.asks[1][1]
HasLastTrade == CurTrades # Null /\ Len(CurTrades.items) > 0
LastTrade == Int2Num(CurTrades.items[1].price)

\* the middle element of the sorted triple
Median3(a, b, c) ==
    LET tr == <<a, b, c>>
    IN  CHOOSE m \in {a, b, c} :
            /\ Cardinality({i \in 1..3 : NumLeq(tr[i], m)}) >= 2
            /\ Cardinality({i \in 1..3 : NumLeq(m, tr[i])}) >= 2

MidPoint(a, b) == Rat(a.n * b.d + b.n * a.d, 2 * a.d * b.d)

\* C1: once the effect has run on an order book holding bids and asks, the
\* mark price is the median of best bid, best ask and last trade when a trade
\* exists, and the midpoint of best bid and best ask when none does.
C1_MarkPriceValue ==
    (~effectDue /\ BothSidesHeld) =>
        markPrice = IF HasLastTrade THEN Median3(BestBid, BestAsk, LastTrade)
                    ELSE MidPoint(BestBid, BestAsk)

\* C2: once the effect has run, the mark price is null exactly when a side is
\* empty, and a number whenever both sides hold a level (a price of 0
\* included, with or without a last trade).
C2_MarkPriceAbsence ==
    ~effectDue =>
        /\ (markPrice = Null) <=> ~BothSidesHeld
        /\ BothSidesHeld => IsNum(markPrice)

\* the two statements restricted to books and trades without a price of 0:
\* both hold
MarkPriceValue_NonZero ==
    (~effectDue /\ BothSidesHeld /\ BestBid.n # 0 /\ BestAsk.n # 0
      /\ (HasLastTrade => LastTrade.n # 0)) =>
        markPrice = IF HasLastTrade THEN Median3(BestBid, BestAsk, LastTrade)
                    ELSE MidPoint(BestBid, BestAsk)
MarkPriceAbsence_NonZero ==
    (~effectDue /\ (BothSidesHeld => BestBid.n # 0 /\ BestAsk.n # 0)) =>
        /\ (markPrice = Null) <=> ~BothSidesHeld
        /\ BothSidesHeld => IsNum(markPrice)

----------------------------------------------------------------------------
(* Claims about the expected fill price (SpecFill) *)

FpCalled == fpResult # Undefined
FpLevels == getL2(fpBook, FillDepthArg, fpAsks)

\* the walk as the documentation describes it, on exact fractions: the cost
\* notional of a level is price * size on the asks and size on the bids
RECURSIVE DocWalk(_, _, _, _, _, _)
DocWalk(levels, i, spent, sum, cost, asks) ==
    IF i > Len(levels) THEN [spent |-> spent, sum |-> sum]
    ELSE LET price == levels[i].price
             costAtLevel == (IF asks THEN price ELSE 1) * levels[i].quantity
         IN  IF spent + costAtLevel > cost
             THEN [spent |-> cost, sum |-> sum + (cost - spent) * price]
             ELSE DocWalk(levels, i + 1, spent + costAtLevel, sum + costAtLevel * price,
                          cost, asks)

DocAverage(levels, cost, asks) ==
    LET w == DocWalk(levels, 1, 0, 0, cost, asks)
    IN  JsDiv(Int2Num(w.sum), Int2Num(IF cost < w.spent THEN cost ELSE w.spent))

\* C3: the unrounded result is weightedSum / min(cost, spentCost) of the
\* documented walk over the chosen side, for every book and positive cost.
C3_FillPriceFormula ==
    FpCalled => totalAvgPrice(fpBook, Int2Num(fpCost), fpAsks) = DocAverage(FpLevels, fpCost, fpAsks)

\* C4: with tickSizeDecimals supplied (0 included) the returned price is the
\* unrounded average floored to that many decimals, hence never above it;
\* with it omitted the unrounded average is returned unchanged.
C4_FillPriceRounding ==
    FpCalled =>
        LET avg == DocAverage(FpLevels, fpCost, fpAsks)
        IN  IF fpTick = Undefined THEN fpResult = avg
            ELSE /\ fpResult = floorToDecimal(avg, fpTick)
                 /\ ~JsGt(fpResult, avg)

\* total cost notional of the walked side
RECURSIVE SideCost(_, _)
SideCost(levels, asks) ==
    IF levels = <<>> THEN 0
    ELSE (IF asks THEN levels[1].price ELSE 1) * levels[1].quantity + SideCost(Tail(levels), asks)

Insufficient(ob, cost, asks) == SideCost(getL2(ob, FillDepthArg, asks), asks) < cost

\* what a call whose cost the book covers can return
CoveredResults ==
    { getExpectedFillPrice([t |-> "orderbook", bids |-> b, asks |-> a], Int2Num(c), s, d) :
        <<b, a, c, s, d>> \in
            { x \in FillBidLevels \X FillAskLevels \X (1..FillMaxCost) \X BOOLEAN \X FillTicks :
                ~Insufficient([t |-> "orderbook", bids |-> x[1], asks |-> x[2]], x[3], x[4]) } }

\* C5: a call the walked side cannot cover returns nothing a covered call
\* could return.
C5_InsufficientDistinguishable ==
    (FpCalled /\ Insufficient(fpBook, fpCost, fpAsks)) => fpResult \notin CoveredResults

----------------------------------------------------------------------------
(* Claims about the balance views (SpecBal) *)

SelectedAccount == useSelectedOpenOrdersAccount(balAccounts)
AccountPresent == Truthy(SelectedAccount)

\* scale(a, d) = a / 10^d
Scale(a, d) == Rat(a, Pow10(d))
NumPlus(x, y) == Rat(x.n * y.d + y.n * x.d, x.d * y.d)

C7_AbsentVersusZero ==
    \A i \in 1..Len(CurBalances) :
        /\ ~AccountPresent =>
              CurBalances[i].orders = Null /\ CurBalances[i].unsettled = Null
        /\ (AccountPresent /\ SelectedAccount = OpenOrdersAccount(0, 0, 0, 0)) =>
              CurBalances[i].orders = Int2Num(0) /\ CurBalances[i].unsettled = Int2Num(0)

\* views are returned for a flat account
C7_WitnessFlat ==
    /\ Len(CurBalances) = 2
    /\ AccountPresent
    /\ SelectedAccount = OpenOrdersAccount(0, 0, 0, 0)
    /\ CurBalances[1].unsettled = Int2Num(0)

----------------------------------------------------------------------------
(* Claims about the open-orders fetchers (SpecFetch) *)

SettledUnauthed == settled # Undefined /\ ~settled.authed

----------------------------------------------------------------------------
(* Claims about useAllOpenOrders (SpecOrders) *)

\* C9: in every state where the wallet is disconnected, the open orders
\* useAllOpenOrders exposes are null.
C9_DisconnectedMeansAbsent ==
    ~connected => openOrders = Null

----------------------------------------------------------------------------
(* Claims about the cache keys (SpecKeys) *)

\* the value an item of a key stands for: the object behind a reference
Deref(item) == IF item.t = "ref" THEN heap[item.addr] ELSE item

\* same operation name and deep-equal arguments
DeepEqualKeys(k1, k2) ==
    /\ Len(k1.items) = Len(k2.items)
    /\ \A i \in 1..Len(k1.items) : Deref(k1.items[i]) = Deref(k2.items[i])

\* C10: two keys with the same name and deep-equal arguments are the same key
\* (one cache slot), and keys differ only when the name or an argument is not
\* deep-equal.
C10_KeysEqualByDeepValue ==
    \A k1, k2 \in cacheKeys : DeepEqualKeys(k1, k2) <=> k1 = k2

----------------------------------------------------------------------------
(* C11: at most one fetch in flight per fingerprint.  In every state each  *)
(* fingerprint has at most one fetcher invocation pending, and exactly one *)
(* while its entry is fetching; the fast and the slow consumer of          *)
(* getOpenOrdersAccounts, rendering with the same wallet, market and       *)
(* connected, share that one invocation; and every subscriber has been     *)
(* handed the value and the error its entry holds, so it observes the      *)
(* outcome of the pending fetch when that completes.                       *)

PendingFor(k) == { p \in pending : p.key = k }
PendingWith(isConnected) == { p \in pending : p.connected = isConnected }

C11_WitnessOutcome ==
    \E k \in DOMAIN entries :
        /\ entries[k].subscribers = Consumers
        /\ ~entries[k].isFetching
        /\ fetchesStarted = 1
        /\ entries[k].value # Undefined
        /\ \A c \in Consumers : seen[c].value = entries[k].value

----------------------------------------------------------------------------
(* C13: stale-value retention.  In every step, for every fingerprint whose *)
(* entry lives through the step: the stored value changes only in a step   *)
(* that completes a fetch with success (isFetching falls and the error is  *)
(* cleared), and a step that completes a fetch with failure changes        *)
(* nothing of the entry but its error and isFetching.                      *)

FetchCompletes(e, e2) == e.isFetching /\ ~e2.isFetching

C13_StaleValueRetained ==
    [][ \A k \in (DOMAIN entries) \cap (DOMAIN entries') :
          LET e == entries[k]
              e2 == entries'[k]
          IN  /\ e2.value # e.value =>
                    FetchCompletes(e, e2) /\ e2.error = Undefined
              /\ (FetchCompletes(e, e2) /\ e2.error # Undefined) =>
                    e2 = [e EXCEPT !.error = e2.error, !.isFetching = FALSE]
      ]_vars

\* a fetch has failed after one had succeeded: the entry holds the error
\* alongside the value of the earlier success
C13_Witness ==
    \E k \in DOMAIN entries :
        /\ entries[k].value # Undefined
        /\ entries[k].error # Undefined
        /\ ~entries[k].isFetching

----------------------------------------------------------------------------
(* C14: resolvers surface data-source failures.  Whenever a resolver       *)
(* invocation has settled and a data-source call of it had failed, its     *)
(* outcome is a failure, and it made no more calls than one attempt makes  *)
(* (Market.load once per market info, Orderbook.load once,                 *)
(* findOpenOrdersAccountForOwner once).                                    *)

CallsOfOneAttempt(fetcher) ==
    IF fetcher = "getAllMarkets" THEN MaxCustomMarkets + NumMarkets ELSE 1

SurfacesFailure(outcome) ==
    /\ outcome.dsFailures > 0 => outcome.status = Rejected.status
    /\ outcome.dsCalls <= CallsOfOneAttempt(outcome.fetcher)

C14_ResolversSurfaceFailures ==
    resSettled # Undefined => SurfacesFailure(resSettled)

\* the same for the fetcher of useOrderbookAccounts and getOpenOrdersAccounts
\* alone, which await the data source without a catch
ResolversSurfaceFailures_BareAwait ==
    (resSettled # Undefined /\ resSettled.fetcher # "getAllMarkets")
        => SurfacesFailure(resSettled)

----------------------------------------------------------------------------
(* C15: native asset special case.  For the base and for the quote side:   *)
(* the wallet balance is absent (null) when the market, the selected token *)
(* account or the loaded account info is missing; otherwise, when the      *)
(* side's mint is the wrapped SOL mint it is the account's lamports        *)
(* divided by 10^9, and for any other mint it is the amount the token      *)
(* account data was written with, divided by 10 to that side's decimals.   *)

NativeDecimals == 9

InfoMissing(account) ==
    \/ ~Truthy(account)
    \/ ~walInfo[account.pubkey].loaded
    \/ ~Truthy(walInfo[account.pubkey].accountInfo)

WalletBalanceIs(balance, account, mint, decimals) ==
    IF ~Truthy(walMarket) \/ InfoMissing(account) THEN balance = Null
    ELSE LET info == walInfo[account.pubkey].accountInfo
         IN  IF mint = WRAPPED_SOL_MINT
             THEN balance = Rat(info.lamports, Pow10(NativeDecimals))
             ELSE \E a \in 0..(257 * (MaxRawAmount + 1)) :
                     /\ info.data = TokenAccountData(a)
                     /\ balance = Rat(a, Pow10(decimals))

C15_NativeAssetBalance ==
    /\ WalletBalanceIs(useSelectedBaseCurrencyBalances, useSelectedBaseCurrencyAccount,
                       IF Truthy(walMarket) THEN walMarket.baseMintAddress ELSE NoMint,
                       IF Truthy(walMarket) THEN walMarket.baseDecimals ELSE 0)
    /\ WalletBalanceIs(useSelectedQuoteCurrencyBalances, useSelectedQuoteCurrencyAccount,
                       IF Truthy(walMarket) THEN walMarket.quoteMintAddress ELSE NoMint,
                       IF Truthy(walMarket) THEN walMarket.quoteDecimals ELSE 0)

\* the base side is the native mint with lamports held, the quote side a
\* token whose amount takes two bytes, and both balances are numbers
C15_Witness ==
    /\ Truthy(walMarket)
    /\ walMarket.baseMintAddress = WRAPPED_SOL_MINT
    /\ walMarket.quoteMintAddress # WRAPPED_SOL_MINT
    /\ useSelectedBaseCurrencyBalances = Rat(1, Pow10(NativeDecimals))
    /\ useSelectedQuoteCurrencyBalances = Rat(257, Pow10(walMarket.quoteDecimals))
    /\ walMarket.quoteDecimals = 1

\* the market is loaded and the account selected, but its info has not loaded
C15_WitnessAbsent ==
    /\ Truthy(walMarket)
    /\ Truthy(useSelectedBaseCurrencyAccount)
    /\ ~walInfo[useSelectedBaseCurrencyAccount.pubkey].loaded
    /\ useSelectedBaseCurrencyBalances = Null

----------------------------------------------------------------------------
(* C16: the mark price stays inside the spread.  Once the effect has run,  *)
(* a mark price that is a number lies between the smaller and the larger   *)
(* of best bid and best ask, whatever the price of the last trade.         *)

InSpread(p) ==
    /\ BothSidesHeld
    /\ NumLeq(BestBid, p) \/ NumLeq(BestAsk, p)
    /\ NumLeq(p, BestBid) \/ NumLeq(p, BestAsk)

C16_MarkPriceInSpread ==
    (~effectDue /\ IsNum(markPrice)) => InSpread(markPrice)

\* the effect has run with a last trade outside the spread
C16_Witness ==
    /\ ~effectDue
    /\ IsNum(markPrice)
    /\ BothSidesHeld
    /\ HasLastTrade
    /\ ~InSpread(LastTrade)

----------------------------------------------------------------------------
(* C17: the loaded flag of useAllOpenOrders under overlapping loads.       *)
(* Whenever loaded is true no getAllOpenOrders load is still running, and  *)
(* the open orders exposed were set by the load that started last, not by  *)
(* an earlier load that completed after it.                                *)

C17_LoadedMeansLatestLoadDone ==
    loaded => (loads = <<>> /\ latestPublished)

----------------------------------------------------------------------------
(* C18: the throttle of refreshOpenOrders.  A call made 10 seconds or less *)
(* after the completion time of the last load (lastRefresh) changes        *)
(* neither the refresh counter nor openOrders, loaded or the running       *)
(* loads; a call made later increments the counter by exactly one and      *)
(* starts exactly one load when the wallet is connected, none otherwise;   *)
(* and a load started by refreshOpenOrders starts more than 10 seconds     *)
(* after the previous load it started.                                     *)

C18_RefreshThrottle ==
    [][ /\ (now - lastRefresh <= RefreshThrottleMs) => refresh' = refresh
        /\ refresh' # refresh =>
              /\ refresh' = refresh + 1
              /\ openOrders' = openOrders
              /\ IF connected /\ Truthy(wallet)
                 THEN Len(loads') = Len(loads) + 1
                 ELSE loads' = loads /\ loaded' = loaded
              /\ (Len(loads') > Len(loads) /\ refreshLoadAt # 0)
                    => now - refreshLoadAt > RefreshThrottleMs
      ]_vars

\* the three parts but the last: they hold
RefreshThrottle_SinceCompletion ==
    [][ /\ (now - lastRefresh <= RefreshThrottleMs) => refresh' = refresh
        /\ refresh' # refresh =>
              /\ refresh' = refresh + 1
              /\ openOrders' = openOrders
              /\ IF connected /\ Truthy(wallet)
                 THEN Len(loads') = Len(loads) + 1
                 ELSE loads' = loads /\ loaded' = loaded
      ]_vars
====
